---- MODULE Spec2Model ----
\* flashlight (src/index.js, the variant started by main(argv), lines 382-964):
\* the two mapLimit phases of main (registry lookup, then install/test), the
\* module inspector and the shared report object.
\*
\* Every action is one JavaScript event handler run to completion: Node runs
\* a handler without interleaving, so whatever a callback calls synchronously
\* (the mapLimit bookkeeping, the next testModule calls, renderReport) is
\* part of the same step.
EXTENDS Integers, Sequences, FiniteSets, TLC

\* ------------------------------------------------------------------ bounds
MaxLen == 2
MaxParallel == 2
MaxPath == 3
MaxArg == 3

\* --------------------------------------------------------------- JS values
\* The JavaScript value undefined, as a value no manifest string equals.
Undefined == "<undefined>"
\* The JavaScript value false that checkAttr passes as the default value.
FalseVal == "<false>"
EmptyStr == ""
NO_VERSION == "NO_VERSION"
UnknownLatest == "?.?.?"
\* process.version of the running Node.js.
ProcessVersion == "1.0.0"
\* The placeholder test script that npm init writes.
NoTestSpecified == "echo \"Error: no test specified\" && exit 1"

\* !x for the values the model uses.
Falsy(x) == x = Undefined \/ x = EmptyStr \/ x = FalseVal

\* ------------------------------------------------------------------ semver
\* The MAJOR.MINOR.PATCH parse of the version strings the model uses; <<>>
\* when the string does not match.
SemverParse(v) ==
    CASE v = "1.0.0" -> <<1, 0, 0>>
      [] v = "2.0.0" -> <<2, 0, 0>>
      [] v = "2.1.0" -> <<2, 1, 0>>
      [] OTHER -> <<>>

SemverValid(v) == Len(SemverParse(v)) = 3

\* semver.gt on two valid versions.
SemverGt(a, b) ==
    LET x == SemverParse(a)
        y == SemverParse(b)
    IN  \/ x[1] > y[1]
        \/ x[1] = y[1] /\ x[2] > y[2]
        \/ x[1] = y[1] /\ x[2] = y[2] /\ x[3] > y[3]

\* semver.satisfies(version, range) for the ranges the model uses; an
\* unparsable range satisfies nothing.
SemverSatisfies(v, range) ==
    CASE range = ">=0.8.0" -> SemverValid(v)
      [] range = ">=99.0.0" -> FALSE
      [] OTHER -> FALSE

\* ----------------------------------------------------------------- sequences
RECURSIVE SelectNonEmpty(_)
SelectNonEmpty(segs) ==
    IF segs = <<>> THEN <<>>
    ELSE IF Head(segs) = EmptyStr THEN SelectNonEmpty(Tail(segs))
    ELSE <<Head(segs)>> \o SelectNonEmpty(Tail(segs))

IsPrefix(p, q) == Len(p) <= Len(q) /\ SubSeq(q, 1, Len(p)) = p

\* ------------------------------------------------------------------- paths
\* A path is the sequence of its segments. The working directory at start.
Cwd == <<"home", "app">>

\* depChainFromPath: drop the parent of the working directory, the trailing
\* package.json and every node_modules, then the empty segments; the result
\* is the chain as the list of names that ' > ' joins.
depChainFromPath(pathToPkgJson) ==
    LET parent == SubSeq(Cwd, 1, Len(Cwd) - 1)
        p1 == IF IsPrefix(parent, pathToPkgJson)
              THEN SubSeq(pathToPkgJson, Len(parent) + 1, Len(pathToPkgJson))
              ELSE pathToPkgJson
        p2 == IF p1 # <<>> /\ p1[Len(p1)] = "package.json"
              THEN SubSeq(p1, 1, Len(p1) - 1)
              ELSE p1
        p3 == [k \in 1..Len(p2) |-> IF p2[k] = "node_modules" THEN EmptyStr ELSE p2[k]]
    IN  SelectNonEmpty(p3)

\* --------------------------------------------------------------- manifests
\* A file is either unparsable or a manifest: attrs maps the dotted paths of
\* the leaves that are present to their values, and the two dependency
\* sections are kept in insertion order as <<name, constraint>> pairs.
ParseFailure == [ok |-> FALSE, attrs |-> <<>>, dependencies |-> <<>>, devDependencies |-> <<>>]

Manifest(attrs, deps, devDeps) ==
    [ok |-> TRUE, attrs |-> attrs, dependencies |-> deps, devDependencies |-> devDeps]

\* The candidates createTestArray can hand over: packageJson is the path,
\* name the dependency name its parent declared ("" for the root), and file
\* what require(packageJson) finds.
App ==
    [packageJson |-> <<"home", "app", "package.json">>,
     name |-> EmptyStr,
     file |-> Manifest(("name" :> "app") @@ ("version" :> "1.0.0")
                       @@ ("description" :> "the app")
                       @@ ("scripts.test" :> "mocha") @@ ("license" :> "MIT"),
                       <<<<"shared", "^2.0.0">>>>, <<>>)]

Shared ==
    [packageJson |-> <<"home", "app", "node_modules", "shared", "package.json">>,
     name |-> "shared",
     file |-> Manifest(("name" :> "shared") @@ ("version" :> "2.0.0"),
                       <<>>, <<>>)]

NoVer ==
    [packageJson |-> <<"home", "app", "node_modules", "nover", "package.json">>,
     name |-> "nover",
     file |-> Manifest(("name" :> "nover") @@ ("scripts.test" :> "mocha")
                       @@ ("homepage" :> "http://nover"),
                       <<>>, <<>>)]

Broken ==
    [packageJson |-> <<"home", "app", "node_modules", "broken", "package.json">>,
     name |-> "broken",
     file |-> ParseFailure]

\* A manifest without a name.
Nameless ==
    [packageJson |-> <<"home", "app", "node_modules", "anon", "package.json">>,
     name |-> "anon",
     file |-> Manifest(("version" :> "1.0.0") @@ ("scripts.test" :> "mocha"),
                       <<>>, <<>>)]

Catalogue == {App, Shared, NoVer, Broken, Nameless}

\* A manifest that declares one dependency of every kind of constraint.
Ranges ==
    [packageJson |-> <<"home", "app", "node_modules", "ranges", "package.json">>,
     name |-> "ranges",
     file |-> Manifest(("name" :> "ranges") @@ ("version" :> "1.0.0"),
                       << <<"a", "*">>, <<"b", EmptyStr>>, <<"c", ">=1.0.0">>,
                          <<"d", "^1.2.0">>, <<"e", "~1.2.0">>, <<"f", "<2.0.0">> >>,
                       << <<"g", "*">>, <<"h", "1.2.0">> >>)]

\* A manifest whose dependency names look like constraints.
Odd ==
    [packageJson |-> <<"home", "app", "node_modules", "odd", "package.json">>,
     name |-> "odd",
     file |-> Manifest(("name" :> "odd") @@ ("version" :> "1.0.0"),
                       << <<"*", "^1.2.0">>, <<">1.0.0", "1.2.0">> >>,
                       <<>>)]

\* A manifest with a dependency whose name starts with a tilde.
OddTilde ==
    [packageJson |-> <<"home", "app", "node_modules", "oddtilde", "package.json">>,
     name |-> "oddtilde",
     file |-> Manifest(("name" :> "oddtilde") @@ ("version" :> "1.0.0"),
                       << <<"~1.2.0", "1.2.0">> >>, <<>>)]

\* A manifest that asks for a Node.js the running one is not, and one
\* that asks for a Node.js it is.
Engined(range) ==
    [packageJson |-> <<"home", "app", "node_modules", "engined", "package.json">>,
     name |-> "engined",
     file |-> Manifest(("name" :> "engined") @@ ("version" :> "1.0.0")
                       @@ ("engine.node" :> range),
                       <<>>, <<>>)]

\* A manifest whose version is not a semantic version.
BadVer ==
    [packageJson |-> <<"home", "app", "node_modules", "badver", "package.json">>,
     name |-> "badver",
     file |-> Manifest(("name" :> "badver") @@ ("version" :> "one"),
                       <<>>, <<>>)]

\* A manifest whose version is the empty string.
EmptyVer ==
    [packageJson |-> <<"home", "app", "node_modules", "emptyver", "package.json">>,
     name |-> "emptyver",
     file |-> Manifest(("name" :> "emptyver") @@ ("version" :> EmptyStr),
                       <<>>, <<>>)]

\* The diamond: app depends on left and right, and both depend on shared.
Dependent(dep) ==
    [packageJson |-> <<"home", "app", "node_modules", dep, "package.json">>,
     name |-> dep,
     file |-> Manifest(("name" :> dep) @@ ("version" :> "1.0.0")
                       @@ ("scripts.test" :> "mocha"),
                       <<<<"shared", "^2.0.0">>>>, <<>>)]

SharedOf(dep) ==
    [Shared EXCEPT !.packageJson =
        <<"home", "app", "node_modules", dep, "node_modules", "shared", "package.json">>]

Diamond ==
    <<App, Dependent("left"), SharedOf("left"), Dependent("right"), SharedOf("right")>>

\* The diamond with a shared module that has a test script.
SharedTested(dep) ==
    [SharedOf(dep) EXCEPT !.file.attrs = ("scripts.test" :> "mocha") @@ @]

DiamondTested ==
    <<App, Dependent("left"), SharedTested("left"),
      Dependent("right"), SharedTested("right")>>

\* Copies of one module, lib, installed under different dependents in
\* different versions, with a description and without one.
Described(dep, ver, description) ==
    [packageJson |-> <<"home", "app", "node_modules", dep, "node_modules", "lib", "package.json">>,
     name |-> "lib",
     file |-> Manifest(("name" :> "lib") @@ ("version" :> ver)
                       @@ ("description" :> description)
                       @@ ("scripts.test" :> "mocha"),
                       <<>>, <<>>)]

Undescribed(dep, ver) ==
    [packageJson |-> <<"home", "app", "node_modules", dep, "node_modules", "lib", "package.json">>,
     name |-> "lib",
     file |-> Manifest(("name" :> "lib") @@ ("version" :> ver)
                       @@ ("scripts.test" :> "mocha"),
                       <<>>, <<>>)]

\* Three versions of lib: the first to be inspected has no description, or
\* has one.
LateDescription ==
    <<Undescribed("left", "1.0.0"), Described("mid", "2.0.0", "first"),
      Described("right", "2.1.0", "second")>>

EarlyDescription ==
    <<Described("left", "1.0.0", "first"), Undescribed("mid", "2.0.0"),
      Described("right", "2.1.0", "second")>>

\* The lists looked at besides the short ones.
Scenarios ==
    {Diamond, <<Ranges>>, <<Odd, App>>, <<OddTilde>>,
     <<Engined(">=99.0.0"), App>>, <<Engined(">=0.8.0")>>,
     <<BadVer, App>>, <<EmptyVer>>}

\* What the registry can answer for one package: an error, or the list of
\* published versions (possibly none).
RegistryAnswers ==
    { [err |-> TRUE, versions |-> <<>>],
      [err |-> FALSE, versions |-> <<>>],
      [err |-> FALSE, versions |-> <<"1.0.0", "2.1.0">>] }

ExitCodes == {0, 1}

\* ------------------------------------------------------------------- state
VARIABLES
    testArray,   \* the candidates createTestArray collected, in order
    parallel,    \* g.parallel
    semverThrows,\* whether the installed semver throws on an invalid version
    pc,          \* where main's async.series stands
    latest,      \* obj.latest of every candidate
    lookup,      \* every candidate's registry lookup
    ml,          \* the counters of the two mapLimit calls (1: lookups, 2: tests)
    report,      \* the report object main creates
    heap,        \* the per-version report objects, by identity
    task,        \* every candidate's testModule call
    procs,       \* the child processes that are running
    rendered,    \* how many times renderReport ran
    displayed,   \* the modules renderReport printed, for every setting of -a and -w
    crash,       \* the uncaught exception that ended the process, if any
    call         \* a function called on its own: its name, arguments and result

vars == <<testArray, parallel, semverThrows, pc, latest, lookup, ml,
          report, heap, task, procs, rendered, displayed, crash, call>>

NoCrash == [at |-> 0, why |-> "none"]

\* No function was called on its own.
NoCall == [fn |-> "none", in |-> <<>>, out |-> <<>>]

\* g.showAll and g.warnings, the two switches renderReport's choice of
\* modules depends on.
Flags == [showAll : BOOLEAN, warnings : BOOLEAN]

N == Len(testArray)

\* The mutable state a handler works on; cur is the candidate it is at.
Cur ==
    [pc |-> pc, latest |-> latest, lookup |-> lookup, ml |-> ml,
     report |-> report, heap |-> heap, task |-> task, procs |-> procs,
     rendered |-> rendered, displayed |-> displayed, crash |-> crash,
     cur |-> 0, stack |-> <<>>]

\* An exception nobody catches: the handler stops and the process ends.
Throw(s, why) == [s EXCEPT !.crash = [at |-> s.cur, why |-> why]]

Threw(s) == s.crash # NoCrash

\* ---------------------------------------------------------- attribute checks
\* module.<path> of a manifest, undefined when the leaf is absent.
AttrOf(module, path) ==
    IF path \in DOMAIN module.attrs THEN module.attrs[path] ELSE Undefined

getPropertyVal(obj, property, defaultVal) ==
    IF property \in DOMAIN obj.attrs THEN obj.attrs[property] ELSE defaultVal

\* target.replace('.', '_'): a string pattern replaces the first dot only.
ReplaceDot(target) ==
    CASE target = "scripts.test" -> "scripts_test"
      [] target = "repository.url" -> "repository_url"
      [] target = "bugs.url" -> "bugs_url"
      [] target = "engine.node" -> "engine_node"
      [] OTHER -> target

\* checkAttr that files every missing attribute as an error, whatever
\* isError says.
checkAttrAsError(module, target, isError, mr) ==
    LET val == getPropertyVal(module, target, FalseVal)
    IN  IF val = FalseVal
        THEN [mr EXCEPT !.errors = Append(@, <<"package.json missing: ", target>>)]
        ELSE [mr EXCEPT !.attrs = (ReplaceDot(target) :> val) @@ @]

\* checkAttr on the per-version report object mr.
checkAttr(module, target, isError, mr) ==
    LET val == getPropertyVal(module, target, FalseVal)
    IN  IF val = FalseVal
        THEN IF isError
             THEN [mr EXCEPT !.errors = Append(@, <<"package.json missing: ", target>>)]
             ELSE [mr EXCEPT !.warnings = Append(@, <<"package.json missing: ", target>>)]
        ELSE [mr EXCEPT !.attrs = (ReplaceDot(target) :> val) @@ @]

\* The checklist of inspectModule, in order.
toDo ==
    << [attr |-> "scripts.test", err |-> TRUE],
       [attr |-> "version", err |-> TRUE],
       [attr |-> "repository.url", err |-> FALSE],
       [attr |-> "bugs.url", err |-> FALSE],
       [attr |-> "homepage", err |-> FALSE],
       [attr |-> "license", err |-> FALSE] >>

RECURSIVE CheckAttrs(_, _, _)
CheckAttrs(module, items, mr) ==
    IF items = <<>> THEN mr
    ELSE CheckAttrs(module, Tail(items),
                    checkAttr(module, Head(items).attr, Head(items).err, mr))

\* str.match(/^c(.)+/) !== null for the strings the model uses.
MatchesAfter(str, c) ==
    CASE c = ">" -> str \in {">=1.0.0", ">1.0.0"}
      [] c = "<" -> str \in {"<2.0.0", "<=2.0.0"}
      [] c = "~" -> str \in {"~1.2.0"}
      [] OTHER -> FALSE

\* checkDepVersions: _.forOwn calls back with (value, key), so the callback's
\* parameter key holds the constraint and val holds the dependency name.
\* mreport.warning does not exist, so the push on it throws.
RECURSIVE checkDepEntries(_, _, _)
checkDepEntries(property, entries, r) ==
    IF entries = <<>> \/ r.threw THEN r
    ELSE LET key == Head(entries)[2]
             val == Head(entries)[1]
             mr == r.mr
             next ==
                 IF val = EmptyStr \/ val = "*"
                 THEN [mr |-> [mr EXCEPT !.errors =
                                  Append(@, <<property, " for ", key, "'s version is a wildcard">>)],
                       threw |-> FALSE]
                 ELSE IF MatchesAfter(val, ">")
                 THEN [mr |-> [mr EXCEPT !.errors =
                                  Append(@, <<property, " for ", key, "'s version is ", val>>)],
                       threw |-> FALSE]
                 ELSE IF MatchesAfter(val, "<") \/ MatchesAfter(val, "~")
                 THEN [mr |-> mr, threw |-> TRUE]
                 ELSE [mr |-> mr, threw |-> FALSE]
         IN  checkDepEntries(property, Tail(entries), next)

\* r carries the object and whether an earlier check already threw.
checkDepVersions(module, property, r) ==
    checkDepEntries(property,
                    IF property = "dependencies" THEN module.dependencies
                    ELSE module.devDependencies,
                    r)

\* ------------------------------------------------------------ inspectModule
\* A fresh per-version report object. name and key record where it was
\* stored; testsPassing FALSE and depChain <<>> stand for "not set yet".
NewReport(name, ver) ==
    [name |-> name, key |-> ver, errors |-> <<>>, warnings |-> <<>>,
     attrs |-> <<>>, refCount |-> 0, testsPassing |-> FALSE,
     depChain |-> <<>>, latest |-> Undefined]

\* report[name] of a module not seen yet.
NewModule == [description |-> Undefined, refCount |-> 0, versions |-> <<>>]

\* HasEntry with the lookup made under the module's name instead of its
\* version: no entry is ever found again.
HasEntryByName(rep, name, version) ==
    /\ name \in DOMAIN rep.modules
    /\ name \in DOMAIN rep.modules[name].versions

\* report[name] && report[name][version] for the key the code looks up.
HasEntry(rep, name, version) ==
    /\ name \in DOMAIN rep.modules
    /\ version \in DOMAIN rep.modules[name].versions

\* The key inspectModule looks up in its dedup check: module.version as it
\* is, undefined included.
DedupKey(module) == AttrOf(module, "version")

\* checkEngine filing the unmet range as a warning.
checkEngineAsWarning(module, mr) ==
    LET range == AttrOf(module, "engine.node")
    IN  IF Falsy(range) THEN mr
        ELSE IF ~SemverSatisfies(ProcessVersion, range)
        THEN [mr EXCEPT !.attrs = ("engine_node" :> range) @@ @,
                        !.warnings = Append(@,
                            <<"version of Node.js (", ProcessVersion,
                              ") does not satisfy engine.node: ", range>>)]
        ELSE [mr EXCEPT !.attrs = ("engine_node" :> range) @@ @]

\* The engine.node check of inspectModule.
checkEngine(module, mr) ==
    LET range == AttrOf(module, "engine.node")
    IN  IF Falsy(range) THEN mr
        ELSE IF ~SemverSatisfies(ProcessVersion, range)
        THEN [mr EXCEPT !.attrs = ("engine_node" :> range) @@ @,
                        !.errors = Append(@,
                            <<"version of Node.js (", ProcessVersion,
                              ") does not satisfy engine.node: ", range>>)]
        ELSE [mr EXCEPT !.attrs = ("engine_node" :> range) @@ @]

\* mreport.<key>, undefined when it was never stored.
Stored(mr, key) == IF key \in DOMAIN mr.attrs THEN mr.attrs[key] ELSE Undefined

\* The "additional checking" of inspectModule: the NO_VERSION mark, then the
\* semver-compliance error.
checkSemver(ver, mr) ==
    LET version == IF ver = NO_VERSION THEN NO_VERSION ELSE Stored(mr, "version")
    IN  IF version # NO_VERSION /\ ~SemverValid(version)
        THEN [mr EXCEPT !.errors = Append(@,
                 <<"package.json: version is not semver-compliant: ", version>>)]
        ELSE IF ver = NO_VERSION
        THEN [mr EXCEPT !.attrs = ("version" :> NO_VERSION) @@ @]
        ELSE mr

\* Testable reading the key with its dot, under which nothing is stored.
TestableDottedKey(mr) == ~Falsy(Stored(mr, "scripts.test"))

\* The verdict inspectModule returns: mreport.scripts_test ? true : false.
Testable(mr) == ~Falsy(Stored(mr, "scripts_test"))

\* The version key inspectModule and testModule store and read under.
VerOf(module) ==
    IF Falsy(AttrOf(module, "version")) THEN NO_VERSION ELSE AttrOf(module, "version")

\* report[name] as it is, or as inspectModule creates it.
ModuleEntry(rep, name) ==
    IF name \in DOMAIN rep.modules THEN rep.modules[name] ELSE NewModule

\* Every check of inspectModule on the fresh object, up to the first throw.
InspectChecks(module, mr0) ==
    checkDepVersions(module, "devDependencies",
        checkDepVersions(module, "dependencies",
            [mr |-> CheckAttrs(module, toDo, checkEngine(module, mr0)),
             threw |-> FALSE]))

\* The end of inspectModule with the description written whenever the
\* manifest has one.
InspectStoreOverwrite(s, module, r) ==
    LET name == AttrOf(module, "name")
        ver == VerOf(module)
        mod0 == ModuleEntry(s.report, name)
        desc == IF ~Falsy(AttrOf(module, "description"))
                THEN AttrOf(module, "description") ELSE mod0.description
        mod1 == [description |-> desc,
                 refCount |-> mod0.refCount + 1,
                 versions |-> (ver :> (Len(s.heap) + 1)) @@ mod0.versions]
    IN  IF r.threw
        THEN [s |-> Throw(s, "mreport.warning is undefined"), ret |-> FALSE]
        ELSE [s |-> [s EXCEPT !.heap = Append(@, [r.mr EXCEPT !.refCount = 1]),
                              !.report.modules = (name :> mod1) @@ @],
              ret |-> Testable(r.mr)]

\* The end of inspectModule: the counts, the stored object, the verdict.
InspectStore(s, module, r) ==
    LET name == AttrOf(module, "name")
        ver == VerOf(module)
        mod0 == ModuleEntry(s.report, name)
        desc == IF Falsy(mod0.description) /\ ~Falsy(AttrOf(module, "description"))
                THEN AttrOf(module, "description") ELSE mod0.description
        mod1 == [description |-> desc,
                 refCount |-> mod0.refCount + 1,
                 versions |-> (ver :> (Len(s.heap) + 1)) @@ mod0.versions]
    IN  IF r.threw
        THEN [s |-> Throw(s, "mreport.warning is undefined"), ret |-> FALSE]
        ELSE [s |-> [s EXCEPT !.heap = Append(@, [r.mr EXCEPT !.refCount = 1]),
                              !.report.modules = (name :> mod1) @@ @],
              ret |-> Testable(r.mr)]

\* The semver check runs after the dependency checks, on what they left.
InspectFinish(s, module, r) ==
    InspectStore(s, module, [mr |-> checkSemver(VerOf(module), r.mr), threw |-> r.threw])

\* The body of inspectModule after the dedup check: creates the object.
InspectNew(s, module) ==
    InspectFinish(s, module,
        InspectChecks(module, NewReport(AttrOf(module, "name"), VerOf(module))))

\* inspectModule(module, report): the new state and the returned flag.
inspectModule(s, module) ==
    LET name == AttrOf(module, "name")
    IN  IF ~module.ok THEN [s |-> s, ret |-> FALSE]
        ELSE IF Falsy(name) THEN [s |-> s, ret |-> FALSE]
        ELSE IF HasEntry(s.report, name, DedupKey(module))
        THEN LET id == s.report.modules[name].versions[DedupKey(module)]
             IN  [s |-> [s EXCEPT !.report.modules[name].refCount = @ + 1,
                                  !.heap[id].refCount = @ + 1],
                  ret |-> FALSE]
        ELSE InspectNew(s, module)

\* ------------------------------------------------------------ renderReport
\* The one change renderReport makes to the report: under every version key
\* that semver accepts, an entry whose tests are not passing gets an error.
pushTestErrors(s) ==
    LET shown(id) ==
            LET o == s.heap[id]
            IN  /\ HasEntry(s.report, o.name, o.key)
                /\ s.report.modules[o.name].versions[o.key] = id
                /\ SemverValid(o.key)
        tests(o) ==
            LET st == IF "scripts_test" \in DOMAIN o.attrs
                      THEN o.attrs["scripts_test"] ELSE Undefined
            IN  IF ~Falsy(st) /\ st # NoTestSpecified
                THEN <<"tests are failing">> ELSE <<"there are no tests">>
    IN  [s EXCEPT !.rendered = @ + 1,
                  !.pc = "rendered",
                  !.heap = [id \in DOMAIN s.heap |->
                               IF shown(id) /\ ~s.heap[id].testsPassing
                               THEN [s.heap[id] EXCEPT !.errors = Append(@, tests(s.heap[id]))]
                               ELSE s.heap[id]]]

\* The version keys of a module that renderReport does not skip.
ShownVersions(s, name) ==
    {k \in DOMAIN s.report.modules[name].versions : SemverValid(k)}

\* The lines renderReport collects for one version: the version, the
\* dependency chains, the errors, and the warnings under -w.
VersionLines(o, f) ==
    1 + Len(o.depChain) + Len(o.errors) + (IF f.warnings THEN Len(o.warnings) ELSE 0)

\* doReport && mReport.length > 1 for one module, the test errors pushed.
printed(s, name, f) ==
    LET entry(k) == s.heap[s.report.modules[name].versions[k]]
    IN  /\ \/ f.showAll
           \/ \E k \in ShownVersions(s, name) :
                  \/ Len(entry(k).errors) > 0
                  \/ f.warnings /\ Len(entry(k).warnings) > 0
        /\ \/ Cardinality(ShownVersions(s, name)) > 1
           \/ \E k \in ShownVersions(s, name) : VersionLines(entry(k), f) > 1

\* The modules renderReport writes to stdout, for every setting of the two
\* switches.
display(s) ==
    [s EXCEPT !.displayed =
        [f \in Flags |-> {name \in DOMAIN s.report.modules : printed(s, name, f)}]]

renderReport(s) == display(pushTestErrors(s))

\* ---------------------------------------------------------------- mapLimit
\* A handler runs to completion through nested synchronous calls. The calls
\* still to be made are kept on s.stack, innermost first; Frame names one.
Frame(op, ph, i, err) == [op |-> op, ph |-> ph, i |-> i, err |-> err]

\* Call f next, before what is already waiting.
Call(s, f) == [s EXCEPT !.stack = <<f>> \o @]

\* async.mapLimit (async 0.2, _eachLimit) for phase ph, 1 the lookups and 2
\* the tests. noop says the final callback was replaced by function () {}.
eachLimit(s, ph) ==
    IF N = 0 \/ parallel <= 0
    THEN Call(s, Frame("finalCallback", ph, 0, FALSE))
    ELSE Call(s, Frame("replenish", ph, 0, FALSE))

replenish(s, ph) ==
    IF s.ml[ph].completed >= N
    THEN (IF s.ml[ph].noop THEN s ELSE Call(s, Frame("finalCallback", ph, 0, FALSE)))
    ELSE Call(s, Frame("iterate", ph, 0, FALSE))

\* iterate taking the items from the end of the array.
iterateBackwards(s, ph) ==
    IF s.ml[ph].running < parallel /\ s.ml[ph].started < N
    THEN LET i == N - s.ml[ph].started
             s1 == [s EXCEPT !.ml[ph].started = @ + 1, !.ml[ph].running = @ + 1]
         IN  Call(Call(s1, Frame("iterate", ph, 0, FALSE)),
                  Frame(IF ph = 1 THEN "getVersion" ELSE "testModule", ph, i, FALSE))
    ELSE s

\* One turn of the while loop of replenish: with a free slot and an item
\* left, the item's iterator is called and the loop goes on after it.
iterate(s, ph) ==
    IF s.ml[ph].running < parallel /\ s.ml[ph].started < N
    THEN LET i == s.ml[ph].started + 1
             s1 == [s EXCEPT !.ml[ph].started = @ + 1, !.ml[ph].running = @ + 1]
         IN  Call(Call(s1, Frame("iterate", ph, 0, FALSE)),
                  Frame(IF ph = 1 THEN "getVersion" ELSE "testModule", ph, i, FALSE))
    ELSE s

\* callback = function () {} after callback(err).
setNoop(s, ph) == [s EXCEPT !.ml[ph].noop = TRUE]

\* The callback each item is started with.
itemDone(s, ph, err) ==
    IF err
    THEN IF s.ml[ph].noop THEN s
         ELSE Call(Call(s, Frame("setNoop", ph, 0, FALSE)),
                   Frame("finalCallback", ph, 0, FALSE))
    ELSE LET s1 == [s EXCEPT !.ml[ph].completed = @ + 1, !.ml[ph].running = @ - 1]
         IN  IF s1.ml[ph].completed >= N
             THEN (IF s1.ml[ph].noop THEN s1
                   ELSE Call(s1, Frame("finalCallback", ph, 0, FALSE)))
             ELSE Call(s1, Frame("replenish", ph, 0, FALSE))

\* The callback mapLimit was given: getLatestVersions' calls the series on,
\* which starts runTests; runTests' ends the series, whose callback renders.
finalCallback(s, ph) ==
    IF ph = 1 THEN Call([s EXCEPT !.pc = "phase2"], Frame("eachLimit", 2, 0, FALSE))
    ELSE renderReport(s)

\* --------------------------------------------------------------- getVersion
\* getVersion looking up every candidate, named or not.
getVersionUnnamedToo(s, i) == [s EXCEPT !.lookup[i] = "pending"]

\* The synchronous part of getVersion: no name, no lookup. Otherwise npm.load
\* and then npm.commands.view are under way; nothing of the program changes
\* between the two, so they are one pending lookup.
getVersion(s, i) ==
    IF Falsy(testArray[i].name)
    THEN Call([s EXCEPT !.lookup[i] = "skipped"], Frame("itemDone", 1, i, FALSE))
    ELSE [s EXCEPT !.lookup[i] = "pending"]

\* --------------------------------------------------------------- testModule
\* What semver.gt(latest, ver) does: "throws", or the comparison. semver 2
\* throws on a version it cannot parse, semver 1 answers false.
GtOutcome(late, ver) ==
    IF ~SemverValid(late) \/ ~SemverValid(ver)
    THEN (IF semverThrows THEN "throws" ELSE "false")
    ELSE IF SemverGt(late, ver) THEN "true" ELSE "false"

\* spawnChild('npm', [step], cwd, ...) for candidate i.
spawnChild(s, i, step) == [s EXCEPT !.procs = @ \cup {<<i, step>>}]

\* The latest-version step of testModule on the object mr: what semver.gt
\* did, and the object after it.
checkOutdated(mr, late, ver) ==
    IF Falsy(mr.latest) /\ ~Falsy(late)
    THEN LET gt == GtOutcome(late, ver)
         IN  [gt |-> gt,
              mr |-> IF gt = "true"
                     THEN [mr EXCEPT !.latest = late,
                                     !.warnings = Append(@,
                                         <<"version ", ver,
                                           " is outdated, the latest version is: ", late>>)]
                     ELSE [mr EXCEPT !.latest = late]]
    ELSE [gt |-> "none", mr |-> mr]

\* testModule from if (testable) on; s holds the object as updated.
testOrSkip(s, i, testable, first) ==
    IF testable
    THEN [spawnChild(s, i, "install") EXCEPT
              !.task[i].state = "InstallRunning",
              !.task[i].installs = @ + 1]
    ELSE Call([s EXCEPT !.task[i].state = IF first THEN "NotTestable" ELSE "Skipped"],
              Frame("itemDone", 2, i, FALSE))

\* testModule on the object id it found: testsPassing, depChain, latest.
\* task[i].late keeps the obj.latest that testModule read.
testFound(s, i, id, testable, first, o) ==
    IF o.gt = "throws" THEN Throw(s, "Invalid Version")
    ELSE testOrSkip([s EXCEPT !.heap[id] = o.mr,
                              !.task[i].mref = id,
                              !.task[i].late = s.latest[i],
                              !.task[i].first = first,
                              !.task[i].testable = testable],
                    i, testable, first)

\* testModule after inspectModule returned r (state and verdict); before is
\* the number of objects there were.
testInspected(r, i, before) ==
    LET obj == testArray[i]
        name == AttrOf(obj.file, "name")
        ver == VerOf(obj.file)
    IN  IF Threw(r.s) THEN r.s
        ELSE IF name \notin DOMAIN r.s.report.modules
        THEN Throw(r.s, "report[module.name] is undefined")
        ELSE IF ver \notin DOMAIN r.s.report.modules[name].versions
        THEN Throw(r.s, "mreport is undefined")
        ELSE LET id == r.s.report.modules[name].versions[ver]
             IN  testFound(r.s, i, id, r.ret, Len(r.s.heap) > before,
                     checkOutdated(
                         [r.s.heap[id] EXCEPT
                              !.testsPassing = FALSE,
                              !.depChain = Append(@, depChainFromPath(obj.packageJson))],
                         r.s.latest[i], ver))

\* The require of testModule failed.
testUnparsable(s, i) ==
    IF ~s.report.errors.defined
    THEN Throw(s, "report.errors is undefined")
    ELSE Call([s EXCEPT !.report.errors.list =
                            Append(@, <<testArray[i].packageJson, ": could not parse file">>),
                        !.task[i].state = "ParseFailed"],
              Frame("itemDone", 2, i, FALSE))

\* The report as a call of testModule sees it: the per-version objects and
\* the modules they are stored under.
Snapshot(s) == [heap |-> s.heap, modules |-> s.report.modules]

NoSnapshot == [heap |-> <<>>, modules |-> <<>>]

\* task[i].found keeps the report as testModule found it for candidate i, and
\* task[i].left the report as its synchronous part left it.
recordEncounter(s0, s1, i) ==
    IF Threw(s1) THEN s1
    ELSE [s1 EXCEPT !.task[i].found = Snapshot(s0), !.task[i].left = Snapshot(s1)]

\* The synchronous part of testModule for candidate i.
testModule(s, i) ==
    IF ~testArray[i].file.ok
    THEN testUnparsable([s EXCEPT !.cur = i], i)
    ELSE recordEncounter(s,
             testInspected(inspectModule([s EXCEPT !.cur = i], testArray[i].file),
                           i, Len(s.heap)),
             i)

\* testDone handing the error of npm test on to mapLimit, as the install
\* callback does.
testDonePropagates(s, i, err) ==
    IF err
    THEN Call([s EXCEPT !.task[i].state = "TestFailed"], Frame("itemDone", 2, i, TRUE))
    ELSE Call([s EXCEPT !.task[i].state = "TestPassed",
                        !.heap[s.task[i].mref].testsPassing = TRUE],
              Frame("itemDone", 2, i, FALSE))

\* The callback of the npm test child: an error is dropped, success sets
\* testsPassing on the object the closure holds.
testDone(s, i, err) ==
    IF err
    THEN Call([s EXCEPT !.task[i].state = "TestFailed"], Frame("itemDone", 2, i, FALSE))
    ELSE Call([s EXCEPT !.task[i].state = "TestPassed",
                        !.heap[s.task[i].mref].testsPassing = TRUE],
              Frame("itemDone", 2, i, FALSE))

\* installDone without the return after cb(err): npm test is spawned
\* whatever npm install did.
installDoneNoReturn(s, i, err) ==
    [s EXCEPT !.procs = @ \cup {<<i, "test">>},
              !.task[i].state = "TestRunning",
              !.task[i].tests = @ + 1]

\* The callback of the npm install child: an error goes to cb(err),
\* success spawns npm test.
installDone(s, i, err) ==
    IF err
    THEN Call([s EXCEPT !.task[i].state = "InstallFailed"], Frame("itemDone", 2, i, TRUE))
    ELSE [spawnChild(s, i, "test") EXCEPT
              !.task[i].state = "TestRunning",
              !.task[i].tests = @ + 1]

\* The close handler of spawnChild: a non-zero code is an error.
childClosed(s, i, step, code) ==
    IF step = "install"
    THEN installDone([s EXCEPT !.procs = @ \ {<<i, step>>},
                               !.task[i].installExit = code, !.cur = i],
                     i, code # 0)
    ELSE testDone([s EXCEPT !.procs = @ \ {<<i, step>>},
                            !.task[i].testExit = code, !.cur = i],
                  i, code # 0)

\* ------------------------------------------------------------- run a handler
\* The next call of the handler.
Step(s) ==
    LET f == Head(s.stack)
        r == [s EXCEPT !.stack = Tail(@)]
    IN  CASE f.op = "eachLimit" -> eachLimit(r, f.ph)
          [] f.op = "replenish" -> replenish(r, f.ph)
          [] f.op = "iterate" -> iterate(r, f.ph)
          [] f.op = "getVersion" -> getVersion(r, f.i)
          [] f.op = "testModule" -> testModule(r, f.i)
          [] f.op = "itemDone" -> itemDone(r, f.ph, f.err)
          [] f.op = "setNoop" -> setNoop(r, f.ph)
          [] f.op = "finalCallback" -> finalCallback(r, f.ph)

\* The handler to its end: until nothing is left to call, or it threw.
RECURSIVE Run(_)
Run(s) == IF s.stack = <<>> \/ Threw(s) THEN s ELSE Run(Step(s))

\* ------------------------------------------------------------------ actions
\* What a handler leaves behind; an uncaught exception ends the process, and
\* what the handler had done until then is gone with it.
Commit(s) ==
    IF Threw(s)
    THEN /\ crash' = s.crash
         /\ pc' = "crashed"
         /\ UNCHANGED <<latest, lookup, ml, report, heap, task, procs, rendered, displayed>>
    ELSE /\ pc' = s.pc
         /\ latest' = s.latest
         /\ lookup' = s.lookup
         /\ ml' = s.ml
         /\ report' = s.report
         /\ heap' = s.heap
         /\ task' = s.task
         /\ procs' = s.procs
         /\ rendered' = s.rendered
         /\ displayed' = s.displayed
         /\ crash' = s.crash

\* What no handler writes: the inputs of the run, and the call record.
Inputs == <<testArray, parallel, semverThrows, call>>

Alive == pc \notin {"start", "exited", "crashed"}

\* main with nothing to test: process.exit(0).
MainEmpty ==
    /\ pc = "start"
    /\ N < 1
    /\ pc' = "exited"
    /\ UNCHANGED <<latest, lookup, ml, report, heap, task, procs, rendered,
                   displayed, crash>>
    /\ UNCHANGED Inputs

\* main: async.series starts getLatestVersions.
MainStart ==
    /\ pc = "start"
    /\ N >= 1
    /\ Commit(Run(Call([Cur EXCEPT !.pc = "phase1"], Frame("eachLimit", 1, 0, FALSE))))
    /\ UNCHANGED Inputs

\* The lookup of candidate i fails: npm.load or npm.commands.view calls back
\* with an error, and getVersion passes it on with cb(err).
LookupFails(i) ==
    /\ Alive
    /\ lookup[i] = "pending"
    /\ Commit(Run(Call([Cur EXCEPT !.lookup[i] = "failed", !.cur = i],
                       Frame("itemDone", 1, i, TRUE))))
    /\ UNCHANGED Inputs

\* npm.commands.view calls back with the published versions.
Viewed(i, versions) ==
    /\ Alive
    /\ lookup[i] = "pending"
    /\ Commit(Run(Call([Cur EXCEPT !.lookup[i] = "done", !.cur = i,
                                   !.latest[i] = IF Len(versions) > 0
                                                 THEN versions[Len(versions)]
                                                 ELSE UnknownLatest],
                       Frame("itemDone", 1, i, FALSE))))
    /\ UNCHANGED Inputs

\* npm install closes with a non-zero code.
InstallFails(i, code) ==
    /\ Alive
    /\ <<i, "install">> \in procs
    /\ code # 0
    /\ Commit(Run(childClosed(Cur, i, "install", code)))
    /\ UNCHANGED Inputs

\* npm install closes with code 0.
InstallOk(i) ==
    /\ Alive
    /\ <<i, "install">> \in procs
    /\ Commit(Run(childClosed(Cur, i, "install", 0)))
    /\ UNCHANGED Inputs

\* npm test closes with a non-zero code.
TestFails(i, code) ==
    /\ Alive
    /\ <<i, "test">> \in procs
    /\ code # 0
    /\ Commit(Run(childClosed(Cur, i, "test", code)))
    /\ UNCHANGED Inputs

\* npm test closes with code 0.
TestPasses(i) ==
    /\ Alive
    /\ <<i, "test">> \in procs
    /\ Commit(Run(childClosed(Cur, i, "test", 0)))
    /\ UNCHANGED Inputs

\* The exit code of the process: main sets none and calls process.exit only
\* with 0, so a run that ends by itself ends with 0; Node ends with a
\* non-zero code after an uncaught exception.
ExitCode == IF pc = "crashed" THEN 1 ELSE 0

\* -------------------------------------------------------------------- spec
NewTask ==
    [state |-> "Pending", mref |-> 0, first |-> FALSE, testable |-> FALSE,
     late |-> Undefined, installs |-> 0, tests |-> 0, installExit |-> -1, testExit |-> -1,
     found |-> NoSnapshot, left |-> NoSnapshot]

NewCounters == [started |-> 0, running |-> 0, completed |-> 0, noop |-> FALSE]

\* Every list of at most MaxLen candidates, and the scenarios.
TestArrays == UNION {[1..n -> Catalogue] : n \in 0..MaxLen} \cup Scenarios

Init ==
    /\ testArray \in TestArrays
    /\ parallel \in 1..MaxParallel
    /\ semverThrows \in BOOLEAN
    /\ pc = "start"
    /\ latest = [i \in 1..Len(testArray) |-> Undefined]
    /\ lookup = [i \in 1..Len(testArray) |-> "idle"]
    /\ ml = <<NewCounters, NewCounters>>
    /\ report = [errors |-> [defined |-> FALSE, list |-> <<>>], modules |-> <<>>]
    /\ heap = <<>>
    /\ task = [i \in 1..Len(testArray) |-> NewTask]
    /\ procs = {}
    /\ rendered = 0
    /\ displayed = [f \in Flags |-> {}]
    /\ crash = NoCrash
    /\ call = NoCall

Next ==
    \/ MainEmpty
    \/ MainStart
    \/ \E i \in 1..N : LookupFails(i)
    \/ \E i \in 1..N : \E a \in RegistryAnswers : ~a.err /\ Viewed(i, a.versions)
    \/ \E i \in 1..N : \E code \in ExitCodes : InstallFails(i, code)
    \/ \E i \in 1..N : InstallOk(i)
    \/ \E i \in 1..N : \E code \in ExitCodes : TestFails(i, code)
    \/ \E i \in 1..N : TestPasses(i)

Spec == Init /\ [][Next]_vars

\* The runs on the diamond whose shared module has a test script (and on
\* the empty list, where main exits at once).
TestedInit ==
    /\ testArray \in {<<>>, DiamondTested}
    /\ parallel \in 1..MaxParallel
    /\ semverThrows \in BOOLEAN
    /\ pc = "start"
    /\ latest = [i \in 1..Len(testArray) |-> Undefined]
    /\ lookup = [i \in 1..Len(testArray) |-> "idle"]
    /\ ml = <<NewCounters, NewCounters>>
    /\ report = [errors |-> [defined |-> FALSE, list |-> <<>>], modules |-> <<>>]
    /\ heap = <<>>
    /\ task = [i \in 1..Len(testArray) |-> NewTask]
    /\ procs = {}
    /\ rendered = 0
    /\ displayed = [f \in Flags |-> {}]
    /\ crash = NoCrash
    /\ call = NoCall

TestedSpec == TestedInit /\ [][Next]_vars

\* The runs on the three versions of lib (and on the empty list).
DescribedInit ==
    /\ testArray \in {<<>>, LateDescription, EarlyDescription}
    /\ parallel \in 1..MaxParallel
    /\ semverThrows \in BOOLEAN
    /\ pc = "start"
    /\ latest = [i \in 1..Len(testArray) |-> Undefined]
    /\ lookup = [i \in 1..Len(testArray) |-> "idle"]
    /\ ml = <<NewCounters, NewCounters>>
    /\ report = [errors |-> [defined |-> FALSE, list |-> <<>>], modules |-> <<>>]
    /\ heap = <<>>
    /\ task = [i \in 1..Len(testArray) |-> NewTask]
    /\ procs = {}
    /\ rendered = 0
    /\ displayed = [f \in Flags |-> {}]
    /\ crash = NoCrash
    /\ call = NoCall

DescribedSpec == DescribedInit /\ [][Next]_vars

\* ------------------------------------------------- functions on their own
\* getPropertyVal, checkAttr, createTestArray and cmdLineArgs, each called
\* once on arguments drawn from bounded sets; call keeps the arguments and
\* the result.

\* JSON values: a string, null, false, or an object with its properties.
JsStr(v) == [kind |-> "str", str |-> v, props |-> <<>>]
JsNull == [kind |-> "null", str |-> EmptyStr, props |-> <<>>]
JsFalse == [kind |-> "false", str |-> EmptyStr, props |-> <<>>]
JsObj(props) == [kind |-> "obj", str |-> EmptyStr, props |-> props]

\* The property names the manifests of this part use.
Keys == {"a", "b"}

\* The objects whose properties are taken from vals.
ObjectsOver(vals) == {JsObj(f) : f \in UNION {[d -> vals] : d \in SUBSET Keys}}

JsLeaves == {JsStr("x"), JsNull, JsFalse}

\* Manifests nested two levels deep.
JsManifests == ObjectsOver(JsLeaves \cup ObjectsOver(JsLeaves))

\* The dotted paths of at most MaxPath names, as the list split('.') gives.
Paths == UNION {[1..n -> Keys] : n \in 1..MaxPath}

\* The loop of getPropertyVal over the names of the path. hasOwnProperty is
\* called on the current value: on null that is a TypeError, on a string or
\* on false it answers false for these names.
RECURSIVE walkProperties(_, _, _)
walkProperties(currVal, properties, defaultVal) ==
    IF properties = <<>> THEN [threw |-> FALSE, val |-> currVal]
    ELSE IF currVal.kind = "null" THEN [threw |-> TRUE, val |-> defaultVal]
    ELSE IF currVal.kind = "obj" /\ Head(properties) \in DOMAIN currVal.props
    THEN walkProperties(currVal.props[Head(properties)], Tail(properties), defaultVal)
    ELSE [threw |-> FALSE, val |-> defaultVal]

\* A dotted name as its characters of interest: the names with a "."
\* between them.
RECURSIVE Dotted(_)
Dotted(properties) ==
    IF Len(properties) <= 1 THEN properties
    ELSE <<Head(properties), ".">> \o Dotted(Tail(properties))

\* target.replace('.', '_'): a string pattern replaces its first match.
RECURSIVE replaceFirstDot(_)
replaceFirstDot(target) ==
    IF target = <<>> THEN <<>>
    ELSE IF Head(target) = "." THEN <<"_">> \o Tail(target)
    ELSE <<Head(target)>> \o replaceFirstDot(Tail(target))

\* checkAttr on a fresh reportForMod: whether it threw, the two lists, and
\* the properties it stored as <<key, value>>.
checkAttrOn(module, properties, isError) ==
    LET r == walkProperties(module, properties, JsFalse)
        msg == <<"package.json missing: ", Dotted(properties)>>
    IN  IF r.threw
        THEN [threw |-> TRUE, errors |-> <<>>, warnings |-> <<>>, stored |-> {}]
        ELSE IF r.val.kind = "false"
        THEN [threw |-> FALSE,
              errors |-> IF isError THEN <<msg>> ELSE <<>>,
              warnings |-> IF isError THEN <<>> ELSE <<msg>>,
              stored |-> {}]
        ELSE [threw |-> FALSE, errors |-> <<>>, warnings |-> <<>>,
              stored |-> {<<replaceFirstDot(Dotted(properties)), r.val>>}]

CallCheckAttr(module, properties, isError) ==
    /\ call = NoCall
    /\ call' = [fn |-> "checkAttr",
                in |-> [module |-> module, properties |-> properties, isError |-> isError],
                out |-> checkAttrOn(module, properties, isError)]
    /\ UNCHANGED <<testArray, parallel, semverThrows, pc, latest, lookup, ml,
                   report, heap, task, procs, rendered, displayed, crash>>

\* A node of the tree packageDeps.findAll returns: the path of its manifest
\* (<<>> when it has none), the dependencies its manifest declares, in
\* order, as <<name, constraint>>, and under every name the child node,
\* AbsentChild where the tree has none.
AbsentChild ==
    [there |-> FALSE, packageJson |-> <<>>, dependencies |-> <<>>, children |-> <<>>]

TreeNode(packageJson, dependencies, children) ==
    [there |-> TRUE, packageJson |-> packageJson,
     dependencies |-> dependencies, children |-> children]

DepNames == {"x", "y"}

Kids(cx, cy) == [n \in DepNames |-> IF n = "x" THEN cx ELSE cy]

\* The manifest path of the node reached by the names of route.
ManifestAt(route) == route \o <<"package.json">>

\* What a node can declare: nothing, one of x and y, or both in either
\* order.
DepLists ==
    {<<>>, << <<"x", "^1.0.0">> >>, << <<"y", "~2.0.0">> >>,
     << <<"x", "^1.0.0">>, <<"y", "~2.0.0">> >>,
     << <<"y", "~2.0.0">>, <<"x", "^1.0.0">> >>}

\* Trees three levels deep: the root, its children, their children.
LeafNodes(route) ==
    {TreeNode(pj, <<>>, Kids(AbsentChild, AbsentChild)) : pj \in {ManifestAt(route), <<>>}}

InnerNodes(route) ==
    {TreeNode(pj, deps, Kids(cx, cy)) :
        pj \in {ManifestAt(route), <<>>},
        deps \in {<<>>, << <<"y", "~2.0.0">> >>,
                  << <<"x", "^1.0.0">>, <<"y", "~2.0.0">> >>},
        cx \in {AbsentChild} \cup LeafNodes(route \o <<"x">>),
        cy \in {AbsentChild} \cup LeafNodes(route \o <<"y">>)}

RootNodes ==
    {TreeNode(pj, deps, Kids(cx, cy)) :
        pj \in {ManifestAt(<<>>), <<>>},
        deps \in DepLists,
        cx \in {AbsentChild} \cup InnerNodes(<<"x">>),
        cy \in {AbsentChild} \cup InnerNodes(<<"y">>)}

\* The candidate createTestArray pushes for a node; ver and name are what
\* the parent's loop wrote onto the node, undefined for the root.
Candidate(node, ver, name) ==
    [packageJson |-> node.packageJson, ver |-> ver, name |-> name]

\* A call of createTestArray that is under way: the node, the ver and name
\* written onto it, and k, the next dependency of its loop (0: the call has
\* just been entered).
Visit(node, ver, name) == [node |-> node, ver |-> ver, name |-> name, k |-> 0]

\* createTestArray, the calls under way innermost first. The loop over the
\* dependencies ends the call with return when a child is missing or has no
\* manifest.
RECURSIVE visitNodes(_, _)
visitNodes(stack, testArr) ==
    IF stack = <<>> THEN testArr
    ELSE IF Head(stack).k = 0
    THEN IF Head(stack).node.packageJson = <<>>
         THEN visitNodes(Tail(stack), testArr)
         ELSE visitNodes(<<[Head(stack) EXCEPT !.k = 1]>> \o Tail(stack),
                         Append(testArr, Candidate(Head(stack).node,
                                                   Head(stack).ver, Head(stack).name)))
    ELSE IF Head(stack).k > Len(Head(stack).node.dependencies)
    THEN visitNodes(Tail(stack), testArr)
    ELSE IF \/ ~Head(stack).node.children[Head(stack).node.dependencies[Head(stack).k][1]].there
            \/ Head(stack).node.children[Head(stack).node.dependencies[Head(stack).k][1]].packageJson = <<>>
    THEN visitNodes(Tail(stack), testArr)
    ELSE visitNodes(<<Visit(Head(stack).node.children[Head(stack).node.dependencies[Head(stack).k][1]],
                            Head(stack).node.dependencies[Head(stack).k][2],
                            Head(stack).node.dependencies[Head(stack).k][1]),
                      [Head(stack) EXCEPT !.k = @ + 1]>> \o Tail(stack),
                    testArr)

createTestArray(moduleTree) ==
    visitNodes(<<Visit(moduleTree, Undefined, Undefined)>>, <<>>)

CallCreateTestArray(moduleTree) ==
    /\ call = NoCall
    /\ call' = [fn |-> "createTestArray", in |-> moduleTree,
                out |-> createTestArray(moduleTree)]
    /\ UNCHANGED <<testArray, parallel, semverThrows, pc, latest, lookup, ml,
                   report, heap, task, procs, rendered, displayed, crash>>

\* createTestArray on objects that can be shared: a tree given as the objects
\* it consists of, so that one object can be the child of several and of
\* itself. Object 1 is the one createTestArray is called with; a child is an
\* object, or NoObj where there is none.
ObjIds == {1, 2}

NoObj == 0

ObjPath(id) == IF id = 1 THEN ManifestAt(<<>>) ELSE ManifestAt(<<"node_modules", "dep">>)

ObjNodes(id) ==
    [packageJson : {ObjPath(id), <<>>},
     dependencies : DepLists,
     children : [DepNames -> ObjIds \cup {NoObj}]]

ObjectTrees == {objs \in [ObjIds -> UNION {ObjNodes(id) : id \in ObjIds}] :
                   \A id \in ObjIds : objs[id] \in ObjNodes(id)}

\* A call under way on object id: the ver and name written onto it, the
\* names it was reached by, and k as in Visit.
VisitObj(id, ver, name, route) ==
    [id |-> id, ver |-> ver, name |-> name, route |-> route, k |-> 0]

\* The child of the object of call v under its k-th dependency.
ChildOf(objs, v) == objs[v.id].children[objs[v.id].dependencies[v.k][1]]

\* createTestArray on the objects, the calls under way innermost first.
\* Control never depends on what the calls write, so a call that is entered
\* for an object that already has a call under way repeats what led to it:
\* more calls under way than there are objects is the recursion without end,
\* which ends in the RangeError of the exhausted stack. r holds the list and,
\* for every candidate, the names it was reached by.
RECURSIVE visitObjects(_, _, _)
visitObjects(objs, stack, r) ==
    IF stack = <<>> THEN r
    ELSE IF Len(stack) > Cardinality(ObjIds) THEN [r EXCEPT !.threw = TRUE]
    ELSE IF Head(stack).k = 0
    THEN IF objs[Head(stack).id].packageJson = <<>>
         THEN visitObjects(objs, Tail(stack), r)
         ELSE visitObjects(objs, <<[Head(stack) EXCEPT !.k = 1]>> \o Tail(stack),
                  [r EXCEPT !.testArray = Append(@, Candidate(objs[Head(stack).id],
                                                     Head(stack).ver, Head(stack).name)),
                            !.routes = Append(@, Head(stack).route)])
    ELSE IF Head(stack).k > Len(objs[Head(stack).id].dependencies)
    THEN visitObjects(objs, Tail(stack), r)
    ELSE IF \/ ChildOf(objs, Head(stack)) = NoObj
            \/ objs[ChildOf(objs, Head(stack))].packageJson = <<>>
    THEN visitObjects(objs, Tail(stack), r)
    ELSE visitObjects(objs,
             <<VisitObj(ChildOf(objs, Head(stack)),
                        objs[Head(stack).id].dependencies[Head(stack).k][2],
                        objs[Head(stack).id].dependencies[Head(stack).k][1],
                        Append(Head(stack).route,
                               objs[Head(stack).id].dependencies[Head(stack).k][1])),
               [Head(stack) EXCEPT !.k = @ + 1]>> \o Tail(stack),
             r)

createTestArrayOn(objs) ==
    visitObjects(objs, <<VisitObj(1, Undefined, Undefined, <<>>)>>,
                 [threw |-> FALSE, testArray |-> <<>>, routes |-> <<>>])

CallCreateTestArrayOn(objs) ==
    /\ call = NoCall
    /\ call' = [fn |-> "createTestArrayOn", in |-> objs, out |-> createTestArrayOn(objs)]
    /\ UNCHANGED <<testArray, parallel, semverThrows, pc, latest, lookup, ml,
                   report, heap, task, procs, rendered, displayed, crash>>

\* The switches in g before cmdLineArgs.
DefaultParallel == 5

g ==
    [parallel |-> DefaultParallel, verbose |-> FALSE, warnings |-> FALSE,
     testOutput |-> FALSE, showLicense |-> FALSE, showAll |-> FALSE]

\* What optimist can hand over as argv.p: nothing, true for a bare -p, a
\* string that is no number, an integer n, or the fraction n + 1/2.
PValues ==
    {[kind |-> k, n |-> 0] : k \in {"absent", "true", "str"}}
        \cup {[kind |-> "int", n |-> n] : n \in -1..MaxArg}
        \cup {[kind |-> "frac", n |-> n] : n \in 0..1}

Argv == [p : PValues, a : BOOLEAN, l : BOOLEAN, v : BOOLEAN, w : BOOLEAN, t : BOOLEAN]

\* if (argv.p): absent and 0 are falsy.
Truthy(p) == p.kind # "absent" /\ ~(p.kind = "int" /\ p.n = 0)

\* is.positiveInt(argv.p).
positiveInt(p) == p.kind = "int" /\ p.n > 0

\* cmdLineArgs taking every truthy argv.p as it is; the result is the
\* value itself, a number only for an integer.
cmdLineArgsUnchecked(argv) ==
    [g EXCEPT !.showAll = argv.a, !.showLicense = argv.l,
              !.parallel = IF Truthy(argv.p) THEN argv.p.n ELSE @,
              !.verbose = argv.v, !.warnings = argv.w, !.testOutput = argv.t]

\* cmdLineArgs without --help, --version and --packageJson: g after it.
cmdLineArgs(argv) ==
    [g EXCEPT !.showAll = argv.a, !.showLicense = argv.l,
              !.parallel = IF Truthy(argv.p) /\ positiveInt(argv.p) THEN argv.p.n ELSE @,
              !.verbose = argv.v, !.warnings = argv.w, !.testOutput = argv.t]

CallCmdLineArgs(argv) ==
    /\ call = NoCall
    /\ call' = [fn |-> "cmdLineArgs", in |-> argv, out |-> cmdLineArgs(argv)]
    /\ UNCHANGED <<testArray, parallel, semverThrows, pc, latest, lookup, ml,
                   report, heap, task, procs, rendered, displayed, crash>>

\* The program before main has started, with an empty list.
PureInit ==
    /\ testArray = <<>>
    /\ parallel = 1
    /\ semverThrows = FALSE
    /\ pc = "start"
    /\ latest = <<>>
    /\ lookup = <<>>
    /\ ml = <<NewCounters, NewCounters>>
    /\ report = [errors |-> [defined |-> FALSE, list |-> <<>>], modules |-> <<>>]
    /\ heap = <<>>
    /\ task = <<>>
    /\ procs = {}
    /\ rendered = 0
    /\ displayed = [f \in Flags |-> {}]
    /\ crash = NoCrash
    /\ call = NoCall

\* One call, and only one, in a run.
PureNext ==
    \/ /\ call = NoCall
       /\ \E module \in JsManifests : \E properties \in Paths : \E isError \in BOOLEAN :
              CallCheckAttr(module, properties, isError)
    \/ /\ call = NoCall
       /\ \E moduleTree \in RootNodes : CallCreateTestArray(moduleTree)
    \/ /\ call = NoCall
       /\ \E argv \in Argv : CallCmdLineArgs(argv)
    \/ /\ call = NoCall
       /\ \E objs \in ObjectTrees : CallCreateTestArrayOn(objs)

PureSpec == PureInit /\ [][PureNext]_vars

\* ================================================================= claims
\* The manifest of candidate i, and its name and version key.
FileOf(i) == testArray[i].file
NameOf(i) == AttrOf(FileOf(i), "name")

\* testModule's synchronous part ran for candidate i without throwing.
Processed(i) == task[i].state # "Pending"

\* testModule was entered for candidate i, to its end or to an exception.
Reached(i) == Processed(i) \/ crash.at = i

\* The candidate has a manifest with a name and a non-empty version.
Versioned(i) == FileOf(i).ok /\ ~Falsy(NameOf(i)) /\ ~Falsy(AttrOf(FileOf(i), "version"))

\* The candidate has a manifest with a name and no version, or "".
Unversioned(i) == FileOf(i).ok /\ ~Falsy(NameOf(i)) /\ Falsy(AttrOf(FileOf(i), "version"))

\* The processed candidates with the (name, version key) of candidate i.
Encounters(i) ==
    {j \in 1..N : /\ Processed(j) /\ FileOf(j).ok
                  /\ NameOf(j) = NameOf(i) /\ VerOf(FileOf(j)) = VerOf(FileOf(i))}

\* The objects ever created for the (name, version key) of candidate i.
ObjectsFor(i) ==
    {id \in DOMAIN heap : heap[id].name = NameOf(i) /\ heap[id].key = VerOf(FileOf(i))}

\* The object the report holds for the (name, version key) of candidate i.
EntryOf(i) == heap[report.modules[NameOf(i)].versions[VerOf(FileOf(i))]]

Earliest(S) == CHOOSE j \in S : \A k \in S : j <= k

Spawned(i) == task[i].installs + task[i].tests

Running(i) == {step \in {"install", "test"} : <<i, step>> \in procs}

PendingLookups == {i \in 1..N : lookup[i] = "pending"}

\* Nothing is left to happen: the process ended, or no lookup and no child
\* is outstanding.
Quiescent ==
    \/ pc \in {"exited", "crashed"}
    \/ pc # "start" /\ procs = {} /\ PendingLookups = {}

\* C1: a (name, version) with a version, processed k >= 1 times, has exactly
\* one report object, whose refCount is k, and only the first of the k
\* encounters spawns install or test.
C1_DedupVersioned ==
    \A i \in 1..N :
        (Versioned(i) /\ Processed(i)) =>
            /\ Cardinality(ObjectsFor(i)) = 1
            /\ EntryOf(i).refCount = Cardinality(Encounters(i))
            /\ \A j \in Encounters(i) \ {Earliest(Encounters(i))} :
                   Spawned(j) = 0 /\ Running(j) = {}

\* A testable versioned module met twice: the first was installed, the
\* second skipped.
C1_Witness ==
    \E i, j \in 1..N :
        /\ i < j /\ Versioned(i) /\ j \in Encounters(i) /\ i \in Encounters(i)
        /\ task[i].installs = 1 /\ task[j].state = "Skipped"
        /\ EntryOf(i).refCount = 2

\* C2 as claimed: once everything has come to rest in a run where an install
\* failed, every candidate was processed.
C2_Claim ==
    (Quiescent /\ crash = NoCrash /\ \E i \in 1..N : task[i].state = "InstallFailed")
        => \A j \in 1..N : Processed(j)

\* C3 as claimed: in each phase at most parallel candidates are under way,
\* and while a candidate waits no slot is free.
C3_Claim ==
    Alive =>
        /\ Cardinality(PendingLookups) <= parallel
        /\ Cardinality({i \in 1..N : Running(i) # {}}) <= parallel
        /\ (\E i \in 1..N : lookup[i] = "idle")
               => Cardinality(PendingLookups) = parallel
        /\ (pc \in {"phase2", "rendered"} /\ \E i \in 1..N : ~Processed(i))
               => Cardinality({i \in 1..N : Running(i) # {}}) = parallel

\* C4 as claimed: no candidate is inspected and no child runs while a lookup
\* is outstanding, and no latest is written once the test phase has begun.
C4_Claim ==
    [][ /\ (PendingLookups' # {}) => (procs' = {} /\ \A j \in 1..N : ~Processed(j)')
        /\ (pc \in {"phase2", "rendered"}) => (latest' = latest) ]_vars

\* C5: npm test of a candidate starts only after its npm install closed with
\* 0, the two never run together, and testsPassing is true only where a
\* candidate holding the object had both close with 0.
C5_InstallThenTest ==
    /\ \A i \in 1..N :
           /\ (<<i, "test">> \in procs \/ task[i].tests > 0) => task[i].installExit = 0
           /\ Cardinality(Running(i)) <= 1
    /\ \A id \in DOMAIN heap :
           heap[id].testsPassing =>
               \E i \in 1..N : /\ task[i].mref = id
                               /\ task[i].installExit = 0 /\ task[i].testExit = 0

\* Both outcomes are there: one candidate passed, another failed its install.
C5_Witness ==
    \E i, j \in 1..N :
        /\ task[i].state = "TestPassed" /\ heap[task[i].mref].testsPassing
        /\ task[j].state = "InstallFailed" /\ task[j].tests = 0

\* C6: on a first encounter inspectModule returns true exactly when the
\* manifest has a non-empty scripts.test; without one nothing is spawned for
\* the candidate and the object's testsPassing is false.
C6_TestableIffScript ==
    \A i \in 1..N :
        (Processed(i) /\ FileOf(i).ok /\ task[i].first) =>
            /\ task[i].testable <=> ~Falsy(AttrOf(FileOf(i), "scripts.test"))
            /\ Falsy(AttrOf(FileOf(i), "scripts.test")) =>
                   /\ Spawned(i) = 0 /\ Running(i) = {}
                   /\ ~heap[task[i].mref].testsPassing

\* A first encounter without a test script next to one with a script.
C6_Witness ==
    \E i, j \in 1..N :
        /\ task[i].first /\ task[i].state = "NotTestable"
        /\ Falsy(AttrOf(FileOf(i), "scripts.test"))
        /\ task[j].first /\ task[j].testable /\ task[j].installs = 1

\* C7 as claimed: a candidate whose manifest does not load leaves one entry
\* in report.errors and the run goes on.
C7_Claim ==
    \A i \in 1..N :
        (~FileOf(i).ok /\ Reached(i)) =>
            /\ crash = NoCrash
            /\ report.errors.defined /\ Len(report.errors.list) >= 1
            /\ task[i].state = "ParseFailed"

\* C8 as claimed: no report for an empty list; otherwise, when everything
\* has come to rest, the report was rendered exactly once.
C8_Claim ==
    /\ rendered <= 1
    /\ N = 0 => rendered = 0
    /\ (N >= 1 /\ Quiescent) => rendered = 1

\* C9 as claimed: a name met again without a version finds the NO_VERSION
\* entry, counts the encounter there and is neither inspected nor tested
\* again.
C9_Claim ==
    \A i \in 1..N :
        (Unversioned(i) /\ Processed(i)) =>
            /\ Cardinality(ObjectsFor(i)) = 1
            /\ EntryOf(i).refCount = Cardinality(Encounters(i))
            /\ \A j \in Encounters(i) \ {Earliest(Encounters(i))} :
                   ~task[j].first /\ ~task[j].testable /\ Spawned(j) = 0

\* C10 as claimed: the entry of a (name, version) holds one dependency chain
\* for every processing of a candidate with that key.
C10_Claim ==
    \A i \in 1..N :
        (Processed(i) /\ FileOf(i).ok) =>
            Len(EntryOf(i).depChain) = Cardinality(Encounters(i))

\* The candidates whose manifest is named shared.
SharedCandidates == {i \in 1..N : FileOf(i).ok /\ NameOf(i) = "shared"}

\* C11 as claimed: on the diamond whose shared module has a test script,
\* once everything has come to rest, npm install ran for exactly one of the
\* two shared candidates, and npm test for at most that one.
C11_Claim ==
    (testArray = DiamondTested /\ Quiescent) =>
        /\ Cardinality({i \in SharedCandidates : task[i].installs = 1}) = 1
        /\ \A i \in SharedCandidates : task[i].installs <= 1 /\ task[i].tests <= task[i].installs

\* C12 as claimed: a candidate whose manifest has no name is passed over:
\* testModule ends for it without an exception and spawns nothing.
C12_Claim ==
    \A i \in 1..N :
        (FileOf(i).ok /\ Falsy(NameOf(i)) /\ Reached(i)) =>
            /\ crash = NoCrash
            /\ Processed(i)
            /\ Spawned(i) = 0 /\ Running(i) = {}

\* C13 as claimed: a failed lookup leaves the unknown sentinel as the
\* candidate's latest version, and when everything has come to rest every
\* other candidate's lookup was started and has ended.
C13_Claim ==
    /\ \A i \in 1..N : lookup[i] = "failed" => latest[i] = UnknownLatest
    /\ (Quiescent /\ \E i \in 1..N : lookup[i] = "failed")
           => \A j \in 1..N : lookup[j] \in {"skipped", "done", "failed"}

\* The object carries the warning of the latest-version check.
HasOutdated(mr) ==
    \E k \in 1..Len(mr.warnings) : mr.warnings[k][1] = "version "

\* late is strictly greater than ver in semantic-version order.
StrictlyNewer(late, ver) ==
    SemverValid(late) /\ SemverValid(ver) /\ SemverGt(late, ver)

\* C14 as claimed: whatever installed version and latest value a candidate
\* carries, testModule does not fail on the comparison, and the object a
\* first encounter created has the outdated warning exactly when the latest
\* version is strictly greater than the installed one.
C14_Claim ==
    \A i \in 1..N :
        (FileOf(i).ok /\ ~Falsy(NameOf(i))) =>
            /\ ~(crash.at = i /\ crash.why = "Invalid Version")
            /\ (Processed(i) /\ task[i].first /\ task[i].late # Undefined) =>
                   (HasOutdated(heap[task[i].mref])
                        <=> StrictlyNewer(task[i].late, VerOf(FileOf(i))))

\* testModule is over for candidate i: nothing more will happen for it.
Terminal(i) ==
    task[i].state \in {"ParseFailed", "NotTestable", "Skipped",
                       "InstallFailed", "TestFailed", "TestPassed"}

\* C15: a candidate whose npm test closed with a non-zero code has
\* testsPassing false on its object, and a run in which nothing but tests
\* failed (no failed install, no exception) brings every candidate to a
\* terminal state.
C15_TestFailureContained ==
    /\ \A i \in 1..N :
           task[i].state = "TestFailed" =>
               task[i].testExit # 0 /\ ~heap[task[i].mref].testsPassing
    /\ (/\ Quiescent /\ crash = NoCrash
        /\ \A i \in 1..N : task[i].state # "InstallFailed")
           => \A j \in 1..N : Terminal(j)

\* With one slot, a test failed and the candidate queued behind it was
\* tested afterwards.
C15_Witness ==
    /\ parallel = 1 /\ Quiescent /\ rendered = 1
    /\ \E i, j \in 1..N :
           /\ i < j /\ task[i].state = "TestFailed"
           /\ task[j].state \in {"TestPassed", "TestFailed"}

\* The error renderReport adds for tests that did not pass.
HasTestError(mr) ==
    \E k \in 1..Len(mr.errors) : mr.errors[k] = <<"tests are failing">>

\* C16 as claimed: when everything has come to rest, the entry of every
\* candidate whose install or test closed with a non-zero code has
\* testsPassing false and an error for it, whatever its version key.
C16_Claim ==
    (Quiescent /\ crash = NoCrash) =>
        \A i \in 1..N :
            task[i].state \in {"InstallFailed", "TestFailed"} =>
                ~EntryOf(i).testsPassing /\ HasTestError(EntryOf(i))

\* Every candidate is a module of its own with a test script.
AllTestable ==
    /\ \A i \in 1..N : FileOf(i).ok /\ ~Falsy(NameOf(i))
                         /\ ~Falsy(AttrOf(FileOf(i), "scripts.test"))
    /\ \A i, j \in 1..N : NameOf(i) = NameOf(j) => i = j

\* C17 as claimed: with one slot and N testable candidates, a run that has
\* come to rest made N install attempts and one test attempt for every
\* install that did not fail.
C17_Claim ==
    (parallel = 1 /\ N >= 1 /\ AllTestable /\ Quiescent /\ crash = NoCrash) =>
        /\ Cardinality({i \in 1..N : task[i].installs = 1}) = N
        /\ Cardinality({i \in 1..N : task[i].tests = 1})
               = N - Cardinality({i \in 1..N : task[i].state = "InstallFailed"})

\* The entries of both dependency sections of candidate i's manifest.
DepEntries(i) == FileOf(i).dependencies \o FileOf(i).devDependencies

\* The findings of checkDepVersions in a list of findings.
DepFindings(list) ==
    {k \in 1..Len(list) : Len(list[k]) >= 4 /\ list[k][2] = " for "}

\* The object the first encounter of candidate i created.
Created(i) == heap[task[i].mref]

\* C18 as claimed: the object a first encounter created holds one
\* dependency error for every entry whose constraint is empty, "*" or
\* starts with ">", and none for any other entry, whatever the names are.
C18_Claim ==
    \A i \in 1..N :
        (Processed(i) /\ FileOf(i).ok /\ task[i].first) =>
            Cardinality(DepFindings(Created(i).errors))
                = Cardinality({k \in 1..Len(DepEntries(i)) :
                                  \/ DepEntries(i)[k][2] \in {EmptyStr, "*"}
                                  \/ MatchesAfter(DepEntries(i)[k][2], ">")})

\* C19 as claimed: inspection never fails in checkDepVersions, and the
\* object a first encounter created holds one dependency warning for every
\* entry whose constraint starts with "~" or "<".
C19_Claim ==
    \A i \in 1..N :
        FileOf(i).ok =>
            /\ ~(crash.at = i /\ crash.why = "mreport.warning is undefined")
            /\ (Processed(i) /\ task[i].first) =>
                   Cardinality(DepFindings(Created(i).warnings))
                       = Cardinality({k \in 1..Len(DepEntries(i)) :
                                         \/ MatchesAfter(DepEntries(i)[k][2], "~")
                                         \/ MatchesAfter(DepEntries(i)[k][2], "<")})

\* How often the finding "package.json missing: attr" is in a list.
MissingIn(list, attr) ==
    Cardinality({k \in 1..Len(list) : list[k] = <<"package.json missing: ", attr>>})

\* The manifest of candidate i has the attribute.
Has(i, attr) == attr \in DOMAIN FileOf(i).attrs

\* C20: the object a first encounter created holds one error for every
\* required attribute the manifest lacks, one warning for every optional
\* attribute it lacks, and no such finding for an attribute it has.
C20_MissingAttributes ==
    \A i \in 1..N :
        (Processed(i) /\ FileOf(i).ok /\ task[i].first) =>
            /\ \A a \in {"scripts.test", "version"} :
                   /\ MissingIn(Created(i).errors, a) = IF Has(i, a) THEN 0 ELSE 1
                   /\ MissingIn(Created(i).warnings, a) = 0
            /\ \A a \in {"repository.url", "bugs.url", "homepage", "license"} :
                   /\ MissingIn(Created(i).warnings, a) = IF Has(i, a) THEN 0 ELSE 1
                   /\ MissingIn(Created(i).errors, a) = 0

\* A first encounter of a manifest that lacks a required and an optional
\* attribute and has one of each.
C20_Witness ==
    \E i \in 1..N :
        /\ Processed(i) /\ FileOf(i).ok /\ task[i].first
        /\ ~Has(i, "version") /\ Has(i, "scripts.test")
        /\ ~Has(i, "license") /\ Has(i, "homepage")
        /\ MissingIn(Created(i).errors, "version") = 1
        /\ MissingIn(Created(i).warnings, "license") = 1

\* The engine.node errors in a list of findings that name both the running
\* version and the range.
EngineFindings(list, range) ==
    {k \in 1..Len(list) :
        /\ Len(list[k]) = 4 /\ list[k][1] = "version of Node.js ("
        /\ list[k][2] = ProcessVersion /\ list[k][4] = range}

\* Any finding about Node.js in a list.
NodeFindings(list) ==
    {k \in 1..Len(list) : list[k][1] = "version of Node.js ("}

\* C22: the object a first encounter created holds exactly one error naming
\* the running Node.js version and the declared range when the manifest
\* declares an engine.node the running version does not satisfy, no such
\* error otherwise, and never a warning about it.
C22_EngineError ==
    \A i \in 1..N :
        (Processed(i) /\ FileOf(i).ok /\ task[i].first) =>
            LET range == AttrOf(FileOf(i), "engine.node")
                unmet == ~Falsy(range) /\ ~SemverSatisfies(ProcessVersion, range)
            IN  /\ Cardinality(NodeFindings(Created(i).errors)) = IF unmet THEN 1 ELSE 0
                /\ unmet => Cardinality(EngineFindings(Created(i).errors, range)) = 1
                /\ NodeFindings(Created(i).warnings) = {}

\* One module whose range is not met has its error, next to a module
\* without a range that has none.
C22_Witness ==
    \E i, j \in 1..N :
        /\ Processed(i) /\ task[i].first
        /\ AttrOf(FileOf(i), "engine.node") = ">=99.0.0"
        /\ Cardinality(EngineFindings(Created(i).errors, ">=99.0.0")) = 1
        /\ Processed(j) /\ task[j].first
        /\ Falsy(AttrOf(FileOf(j), "engine.node"))
        /\ NodeFindings(Created(j).errors) = {}

\* The semver-compliance errors in a list of findings.
SemverFindings(list) ==
    {k \in 1..Len(list) : list[k][1] = "package.json: version is not semver-compliant: "}

\* C23 as claimed: the object a first encounter created holds a
\* semver-compliance error exactly when the manifest has a non-empty
\* version that is not a semantic version, a manifest without one sits
\* under NO_VERSION, and testModule does not fail on a candidate whose
\* version is missing or not compliant.
C23_Claim ==
    \A i \in 1..N :
        (FileOf(i).ok /\ ~Falsy(NameOf(i))) =>
            /\ (Processed(i) /\ task[i].first) =>
                   /\ (SemverFindings(Created(i).errors) # {})
                          <=> (~Falsy(AttrOf(FileOf(i), "version"))
                               /\ ~SemverValid(AttrOf(FileOf(i), "version")))
                   /\ Falsy(AttrOf(FileOf(i), "version")) => Created(i).key = NO_VERSION
            /\ ~SemverValid(VerOf(FileOf(i))) => crash.at # i

\* The object with identity id is the one the report holds under its key.
InReport(id) ==
    /\ HasEntry(report, heap[id].name, heap[id].key)
    /\ report.modules[heap[id].name].versions[heap[id].key] = id

\* The errors, and with -w the warnings, of the first k objects that are in
\* the report.
RECURSIVE FindingsUpTo(_, _)
FindingsUpTo(k, withWarnings) ==
    IF k = 0 THEN 0
    ELSE FindingsUpTo(k - 1, withWarnings)
         + (IF InReport(k)
            THEN Len(heap[k].errors) + (IF withWarnings THEN Len(heap[k].warnings) ELSE 0)
            ELSE 0)

\* C26 as claimed: after a run that rendered its report and has come to
\* rest, the exit code is the number of errors in the report, plus the
\* number of warnings under -w.
C26_Claim ==
    (pc = "rendered" /\ Quiescent) =>
        \A w \in BOOLEAN :
            ExitCode = Len(report.errors.list) + FindingsUpTo(Len(heap), w)

\* Some entry of module name has an error, or a warning.
ModuleHasError(name) ==
    \E k \in DOMAIN report.modules[name].versions :
        Len(heap[report.modules[name].versions[k]].errors) > 0

ModuleHasWarning(name) ==
    \E k \in DOMAIN report.modules[name].versions :
        Len(heap[report.modules[name].versions[k]].warnings) > 0

\* The claimed choice of modules, for the switches f.
ShouldDisplay(name, f) ==
    f.showAll \/ ModuleHasError(name) \/ (f.warnings /\ ModuleHasWarning(name))

\* C27 as claimed: the step that renders the report prints a module of the
\* report exactly when -a is set, or the module has an error, or -w is set
\* and it has a warning.
C27_Claim ==
    [][ rendered' = rendered + 1 =>
            \A f \in Flags : \A name \in DOMAIN report'.modules :
                (name \in displayed'[f]) <=> ShouldDisplay(name, f)' ]_vars

\* C28 as claimed: of the candidates with one (name, version key), however
\* they interleave, only one creates an entry and only one spawns a child.
C28_Claim ==
    \A i, j \in 1..N :
        (/\ i # j /\ Processed(i) /\ Processed(j)
         /\ FileOf(i).ok /\ FileOf(j).ok /\ ~Falsy(NameOf(i))
         /\ NameOf(i) = NameOf(j) /\ VerOf(FileOf(i)) = VerOf(FileOf(j))) =>
            /\ ~(task[i].first /\ task[j].first)
            /\ ~(Spawned(i) > 0 /\ Spawned(j) > 0)
            /\ Cardinality(ObjectsFor(i)) = 1

\* The transitions of the per-candidate state machine.
Transitions ==
    {<<"Pending", "Skipped">>, <<"Pending", "NotTestable">>, <<"Pending", "InstallRunning">>,
     <<"InstallRunning", "InstallFailed">>, <<"InstallRunning", "TestRunning">>,
     <<"TestRunning", "TestPassed">>, <<"TestRunning", "TestFailed">>}

\* The terminal states the state machine names.
TerminalStates == {"Skipped", "NotTestable", "InstallFailed", "TestPassed", "TestFailed"}

\* C29 as claimed: every step moves a candidate along the state machine or
\* leaves it, and once nothing is left to happen (no lookup and no child
\* outstanding, or the process at its end) every candidate is in a terminal
\* state.
C29_Claim ==
    [][ /\ \A i \in 1..N :
              task[i].state # task[i].state' =>
                  <<task[i].state, task[i].state'>> \in Transitions
        /\ Quiescent' => \A i \in 1..N : task[i].state' \in TerminalStates ]_vars

\* C30 as claimed: the step that renders the report leaves no child
\* running, and after it no report object changes.
C30_Claim ==
    [][ /\ rendered' = rendered + 1 => procs' = {}
        /\ rendered >= 1 => heap' = heap ]_vars

\* A dotted name with every dot replaced by an underscore.
AllDotsReplaced(target) ==
    [k \in 1..Len(target) |-> IF target[k] = "." THEN "_" ELSE target[k]]

\* C21 as claimed: checkAttr does not throw, and either files exactly one
\* 'missing' message, under errors when the attribute is required and under
\* warnings when not, and stores nothing, or files nothing and stores one
\* value under the path with every dot replaced by an underscore.
C21_Claim ==
    call.fn = "checkAttr" =>
        /\ ~call.out.threw
        /\ \/ /\ call.out.stored = {}
              /\ Len(call.out.errors) = IF call.in.isError THEN 1 ELSE 0
              /\ Len(call.out.warnings) = IF call.in.isError THEN 0 ELSE 1
           \/ /\ call.out.errors = <<>> /\ call.out.warnings = <<>>
              /\ \E e \in call.out.stored :
                     /\ call.out.stored = {e}
                     /\ e[1] = AllDotsReplaced(Dotted(call.in.properties))

\* What F gives for the first and the second entry of deps, in order.
EachOf(deps, F(_)) ==
    (IF Len(deps) >= 1 THEN F(deps[1]) ELSE <<>>)
        \o (IF Len(deps) >= 2 THEN F(deps[2]) ELSE <<>>)

\* The pre-order list of a node on the third level, the second and the
\* first: the node if it is there and has a manifest, then the subtree of
\* every declared dependency, a missing one giving nothing.
PreOrderLeaf(node, ver, name) ==
    IF ~node.there \/ node.packageJson = <<>> THEN <<>>
    ELSE <<Candidate(node, ver, name)>>

PreOrderInner(node, ver, name) ==
    IF ~node.there \/ node.packageJson = <<>> THEN <<>>
    ELSE <<Candidate(node, ver, name)>>
         \o EachOf(node.dependencies,
                   LAMBDA d : PreOrderLeaf(node.children[d[1]], d[2], d[1]))

PreOrder(root) ==
    IF root.packageJson = <<>> THEN <<>>
    ELSE <<Candidate(root, Undefined, Undefined)>>
         \o EachOf(root.dependencies,
                   LAMBDA d : PreOrderInner(root.children[d[1]], d[2], d[1]))

\* C24 as claimed: createTestArray gives the pre-order list in declaration
\* order, a dependency whose child is missing or has no manifest ending only
\* its own branch.
C24_Claim ==
    call.fn = "createTestArray" => call.out = PreOrder(call.in)

\* C25: after cmdLineArgs g.parallel is a positive integer: the value of -p
\* when that is a positive integer, and 5 for every other -p and without -p.
C25_PositiveParallel ==
    call.fn = "cmdLineArgs" =>
        /\ call.out.parallel \in Nat /\ call.out.parallel > 0
        /\ call.out.parallel =
               IF call.in.p.kind = "int" /\ call.in.p.n > 0 THEN call.in.p.n ELSE 5

\* cmdLineArgs took a -p 2, and on another call kept the default for a -p
\* that is no number.
C25_Witness ==
    /\ call.fn = "cmdLineArgs"
    /\ \/ call.in.p = [kind |-> "int", n |-> 2] /\ call.out.parallel = 2
       \/ call.in.p = [kind |-> "str", n |-> 0] /\ call.out.parallel = 5

\* Both children of candidate i closed with code 0.
BothExitedZero(i) == task[i].installExit = 0 /\ task[i].testExit = 0

\* C31 as claimed: when everything has come to rest, testsPassing of the
\* entry of every (name, version) is true exactly when npm install and npm
\* test of its first encounter both closed with 0, whatever parallel is and
\* whatever the order in which the children closed.
C31_Claim ==
    (Quiescent /\ crash = NoCrash) =>
        \A i \in 1..N :
            (Processed(i) /\ FileOf(i).ok /\ ~Falsy(NameOf(i))) =>
                (EntryOf(i).testsPassing <=> BothExitedZero(Earliest(Encounters(i))))

\* Candidate i was processed as a duplicate: testModule found an entry for
\* its (name, version key) in the report.
DuplicateEncounter(i) ==
    /\ Processed(i) /\ FileOf(i).ok /\ ~Falsy(NameOf(i))
    /\ NameOf(i) \in DOMAIN task[i].found.modules
    /\ VerOf(FileOf(i)) \in DOMAIN task[i].found.modules[NameOf(i)].versions

\* C32 as claimed: the synchronous part of testModule on a duplicate
\* encounter leaves every object and every module entry as it found them,
\* but for the two refCounts and one more dependency chain on the entry of
\* its (name, version).
C32_Claim ==
    \A i \in 1..N :
        DuplicateEncounter(i) =>
            LET name == NameOf(i)
                id == task[i].found.modules[name].versions[VerOf(FileOf(i))]
            IN  /\ task[i].left.modules =
                       [task[i].found.modules EXCEPT ![name].refCount = @ + 1]
                /\ task[i].left.heap =
                       [task[i].found.heap EXCEPT
                            ![id].refCount = @ + 1,
                            ![id].depChain =
                                Append(@, depChainFromPath(testArray[i].packageJson))]

\* The sum of the refCounts of the version entries of a module under keys.
RECURSIVE SumRefCounts(_, _)
SumRefCounts(name, keys) ==
    IF keys = {} THEN 0
    ELSE LET k == CHOOSE x \in keys : TRUE
         IN  heap[report.modules[name].versions[k]].refCount
                 + SumRefCounts(name, keys \ {k})

\* The processed candidates whose manifest has the given name.
ProcessedNamed(name) ==
    {j \in 1..N : Processed(j) /\ FileOf(j).ok /\ NameOf(j) = name}

\* C33 as claimed: the refCount of every module of the report is the sum of
\* the refCounts of its version entries, NO_VERSION included, and the number
\* of candidates of that name processed so far.
C33_Claim ==
    \A name \in DOMAIN report.modules :
        /\ report.modules[name].refCount
               = SumRefCounts(name, DOMAIN report.modules[name].versions)
        /\ report.modules[name].refCount = Cardinality(ProcessedNamed(name))

\* The object stored under a (name, version key) of the report.
IdAt(rep, name, key) == rep.modules[name].versions[key]

\* Sequence a is a prefix of sequence b.
Grows(a, b) == Len(a) <= Len(b) /\ SubSeq(b, 1, Len(a)) = a

\* C34 as claimed: in every step an entry of the report stays the same
\* object under its key, its refCount is at least 1 and does not decrease,
\* its errors, warnings and dependency chains only grow, and the object a
\* candidate writes its test result to is the one the report holds.
C34_Claim ==
    [][ /\ \A name \in DOMAIN report.modules :
               \A key \in DOMAIN report.modules[name].versions :
                   LET id == IdAt(report, name, key)
                   IN  /\ name \in DOMAIN report'.modules
                       /\ key \in DOMAIN report'.modules[name].versions
                       /\ IdAt(report', name, key) = id
                       /\ heap[id].refCount >= 1
                       /\ heap'[id].refCount >= heap[id].refCount
                       /\ Grows(heap[id].errors, heap'[id].errors)
                       /\ Grows(heap[id].warnings, heap'[id].warnings)
                       /\ Grows(heap[id].depChain, heap'[id].depChain)
        /\ \A i \in 1..N :
               (task'[i].state \in {"InstallRunning", "TestRunning", "TestPassed"})
                   => IdAt(report', NameOf(i), VerOf(FileOf(i))) = task'[i].mref ]_vars

\* The processed candidates that worked on the object id.
UsersOf(id) == {j \in 1..N : Processed(j) /\ FileOf(j).ok /\ task[j].mref = id}

\* The dependency chains of the candidates in S, in the order of the array.
RECURSIVE ChainsInOrder(_)
ChainsInOrder(S) ==
    IF S = {} THEN <<>>
    ELSE <<depChainFromPath(testArray[Earliest(S)].packageJson)>>
             \o ChainsInOrder(S \ {Earliest(S)})

\* C35: candidates are inspected in the order of the test array: a processed
\* candidate has every earlier one processed before it, and found the report
\* with the earlier one's work in it; of the candidates that worked on one
\* object the first of the array is the first encounter and the only one
\* tested, and the object's dependency chains are in the order of the array.
C35_FlattenOrder ==
    /\ \A i, j \in 1..N :
           (i < j /\ Processed(j)) =>
               /\ Processed(i)
               /\ (FileOf(i).ok /\ FileOf(j).ok /\ ~Falsy(NameOf(i))) =>
                      /\ Len(task[j].found.heap) >= Len(task[i].left.heap)
                      /\ NameOf(i) \in DOMAIN task[j].found.modules
                      /\ task[j].found.modules[NameOf(i)].refCount
                             >= task[i].left.modules[NameOf(i)].refCount
    /\ \A id \in DOMAIN heap :
           UsersOf(id) # {} =>
               /\ \A j \in UsersOf(id) :
                      /\ task[j].first <=> j = Earliest(UsersOf(id))
                      /\ Spawned(j) > 0 => j = Earliest(UsersOf(id))
               /\ heap[id].depChain = ChainsInOrder(UsersOf(id))

\* With two slots a later candidate's test passed while the first one's
\* install still runs, and the second shared of the diamond was counted on
\* the object the first shared created.
C35_Witness ==
    /\ parallel = 2
    /\ \E i, j, k, d \in 1..N :
           /\ i < j /\ task[i].state = "InstallRunning" /\ task[j].state = "TestPassed"
           /\ k < d /\ task[k].first /\ task[d].state = "Skipped"
           /\ task[d].mref = task[k].mref
           /\ Len(heap[task[d].mref].depChain) = 2

\* The processed candidates of a name that inspectModule inspected and whose
\* manifest has a description.
InspectedDescribed(name) ==
    {j \in ProcessedNamed(name) :
         task[j].first /\ ~Falsy(AttrOf(FileOf(j), "description"))}

\* C36: the description of a module of the report is that of the first
\* inspected manifest of its name that has one, whatever was inspected
\* after it, and is unset while no inspected manifest has one.
C36_DescriptionOnce ==
    \A name \in DOMAIN report.modules :
        report.modules[name].description =
            IF InspectedDescribed(name) = {} THEN Undefined
            ELSE AttrOf(FileOf(Earliest(InspectedDescribed(name))), "description")

\* Three versions of lib were inspected, the first without a description,
\* the other two with different ones: the module has the second's.
C36_Witness ==
    /\ testArray = LateDescription
    /\ \A i \in 1..N : Processed(i) /\ task[i].first
    /\ report.modules["lib"].description = "first"
    /\ DOMAIN report.modules["lib"].versions = {"1.0.0", "2.0.0", "2.1.0"}

\* How many outdated warnings the object carries.
OutdatedCount(mr) ==
    Cardinality({k \in 1..Len(mr.warnings) : mr.warnings[k][1] = "version "})

\* The processed candidates of the (name, version key) of the object mr that
\* carried a latest version when testModule read it.
Resolved(mr) ==
    {j \in 1..N : /\ Processed(j) /\ FileOf(j).ok
                  /\ NameOf(j) = mr.name /\ VerOf(FileOf(j)) = mr.key
                  /\ ~Falsy(task[j].late)}

\* No object has more than one outdated warning, and the latest of an object
\* is the one that the first processed candidate of its (name, version) with
\* a latest carried.
LatestFromFirst ==
    \A id \in DOMAIN heap :
        /\ OutdatedCount(heap[id]) <= 1
        /\ ~Falsy(heap[id].latest) =>
               /\ Resolved(heap[id]) # {}
               /\ heap[id].latest = task[Earliest(Resolved(heap[id]))].late

\* C37 as claimed: a candidate's latest is written at most once; the latest
\* of a report object, once set, stays, and is the one the first processed
\* candidate of its (name, version) with a latest carried; no object has
\* more than one outdated warning.
C37_Claim ==
    [][ /\ \A i \in 1..N : ~Falsy(latest[i]) => latest'[i] = latest[i]
        /\ \A id \in DOMAIN heap :
               ~Falsy(heap[id].latest) => heap'[id].latest = heap[id].latest
        /\ LatestFromFirst' ]_vars

\* Object m is a child of object n that createTestArray would go into: n
\* declares a dependency under whose name m is stored, and m has a manifest.
DeclaredChild(objs, n, m) ==
    /\ m # NoObj /\ objs[m].packageJson # <<>>
    /\ \E k \in 1..Len(objs[n].dependencies) :
           objs[n].children[objs[n].dependencies[k][1]] = m

\* The objects reached from those of S in at most steps declarations.
RECURSIVE ReachedIn(_, _, _)
ReachedIn(objs, S, steps) ==
    IF steps = 0 THEN S
    ELSE ReachedIn(objs,
                   S \cup {m \in ObjIds : \E n \in S : DeclaredChild(objs, n, m)},
                   steps - 1)

\* The objects reached from n through one declaration or more.
Below(objs, n) ==
    ReachedIn(objs, {m \in ObjIds : DeclaredChild(objs, n, m)}, Cardinality(ObjIds))

\* Some object of the tree of object 1 is reachable from itself.
HasCycle(objs) ==
    /\ objs[1].packageJson # <<>>
    /\ \E n \in {1} \cup Below(objs, 1) : n \in Below(objs, n)

\* C38 as claimed: on a tree without a cycle createTestArray ends normally
\* and lists no two candidates reached by the same names; on a tree in
\* which an object is reachable from itself it does not end normally.
C38_Claim ==
    call.fn = "createTestArrayOn" =>
        IF HasCycle(call.in)
        THEN call.out.threw
        ELSE /\ ~call.out.threw
             /\ \A a, b \in 1..Len(call.out.routes) :
                    call.out.routes[a] = call.out.routes[b] => a = b

\* What getVersion leaves as obj.latest for a list of published versions.
LatestOf(versions) ==
    IF Len(versions) > 0 THEN versions[Len(versions)] ELSE UnknownLatest

\* A candidate without a name gets no lookup and no latest, and every
\* candidate that was passed over or answered counts as completed.
UnnamedPassedOver ==
    /\ \A i \in 1..N :
           Falsy(testArray[i].name) =>
               lookup[i] \in {"idle", "skipped"} /\ latest[i] = Undefined
    /\ ml[1].completed
           = Cardinality({i \in 1..N : lookup[i] \in {"skipped", "done"}})

\* C39: when the registry answers the lookup of a candidate with a list of
\* versions, the candidate's latest becomes the last entry of the list, and
\* '?.?.?' when the list is empty; a candidate without a name gets no
\* lookup and no latest and completes without an error.
C39_LatestFromRegistry ==
    [][ /\ \A i \in 1..N : \A a \in RegistryAnswers :
               (~a.err /\ Viewed(i, a.versions) /\ pc' # "crashed") =>
                   lookup'[i] = "done" /\ latest'[i] = LatestOf(a.versions)
        /\ UnnamedPassedOver' ]_vars

\* The root, which has no name, was passed over, and the two lookups made
\* were answered with a list of versions and with none.
C39_Witness ==
    /\ \E i \in 1..N : Falsy(testArray[i].name) /\ lookup[i] = "skipped"
    /\ \E i, j \in 1..N :
           /\ lookup[i] = "done" /\ latest[i] = "2.1.0"
           /\ lookup[j] = "done" /\ latest[j] = UnknownLatest

====
